---- MODULE Spec2Model ----
(***************************************************************************)
(* k-medoids string clustering: the Jaro / Jaro-Winkler similarity         *)
(* (stringdist.py), the pairwise DistanceMatrix and the ClusterEngine      *)
(* (clusterengine.py).                                                     *)
(*                                                                         *)
(* Strings are sequences of one-character strings.  Python floats are      *)
(* IEEE-754 binary64 values; they are modelled exactly: a float is a       *)
(* record [m, e] standing for m * 2^e, with m a natural number of exactly  *)
(* 53 bits (or zero), kept as a little-endian sequence of base-2^15 limbs  *)
(* because the mantissa does not fit the model checker's integers.  Every  *)
(* arithmetic operation rounds to nearest, ties to even, as the hardware   *)
(* does.  All floats of this program are finite and non-negative.          *)
(***************************************************************************)
EXTENDS Integers, Sequences, FiniteSets, TLC

VARIABLES
  k, elems,          \* ClusterEngine.k, ClusterEngine.elems
  distMap,           \* DistanceMatrix.distMap
  calls,             \* the getDist evaluations made by DistanceMatrix.__init__
  result,            \* ClusterEngine.result
  current_medoids,   \* local of cluster()
  last_medoids,      \* local of cluster()
  pc,                \* "idle", or "loop" while cluster() is at its while
  seen,              \* the medoid multisets the passes of the running
                     \* cluster() started from
  returned,          \* some cluster() call has returned normally
  call, args,        \* the last operation called and its arguments
  err,               \* the exception it raised, "none" if it returned
  out,               \* the value it returned
  unready,           \* some accessor has raised InvalidStateError
  sa, sb,            \* arguments handed to the similarity functions
  jres               \* their results

vars == <<k, elems, distMap, calls, result, current_medoids, last_medoids, pc,
          seen, returned, call, args, err, out, unready, sa, sb, jres>>

engineVars == <<k, elems, distMap, calls, result, current_medoids,
                last_medoids, pc, seen, returned>>

\* ------------------------------------------------------------------------
\* Bounds of the model
\* ------------------------------------------------------------------------
MaxLen == 4        \* longest string handed to the similarity functions
MaxRun == 25       \* longest single-letter run "aaa...a" handed to them
MaxElems == 4      \* largest element collection
MaxK == 2          \* largest k

\* ------------------------------------------------------------------------
\* Natural numbers of arbitrary size (little-endian limbs, no leading zero)
\* ------------------------------------------------------------------------
Base == 32768
LimbBits == 15

Max2(x, y) == IF x >= y THEN x ELSE y
Min2(x, y) == IF x <= y THEN x ELSE y

RECURSIVE Pow2(_)
Pow2(n) == IF n = 0 THEN 1 ELSE 2 * Pow2(n - 1)

RECURSIVE BigTrim(_)
BigTrim(x) ==
  IF x = <<>> THEN <<>>
  ELSE IF x[Len(x)] = 0 THEN BigTrim(SubSeq(x, 1, Len(x) - 1))
  ELSE x

RECURSIVE BigOfInt(_)
BigOfInt(n) == IF n = 0 THEN <<>> ELSE <<n % Base>> \o BigOfInt(n \div Base)

RECURSIVE BigToInt(_)
BigToInt(x) == IF x = <<>> THEN 0 ELSE Head(x) + Base * BigToInt(Tail(x))

RECURSIVE BigAddC(_, _, _)
BigAddC(x, y, c) ==
  IF x = <<>> /\ y = <<>> THEN (IF c = 0 THEN <<>> ELSE <<c>>)
  ELSE LET xd == IF x = <<>> THEN 0 ELSE Head(x)
           yd == IF y = <<>> THEN 0 ELSE Head(y)
           t  == xd + yd + c
       IN <<t % Base>> \o BigAddC(IF x = <<>> THEN <<>> ELSE Tail(x),
                                  IF y = <<>> THEN <<>> ELSE Tail(y),
                                  t \div Base)

BigAdd(x, y) == BigAddC(x, y, 0)

\* x - y for x >= y
RECURSIVE BigSubB(_, _, _)
BigSubB(x, y, b) ==
  IF x = <<>> THEN <<>>
  ELSE LET yd == IF y = <<>> THEN 0 ELSE Head(y)
           t  == Head(x) - yd - b
       IN <<t % Base>> \o BigSubB(Tail(x),
                                  IF y = <<>> THEN <<>> ELSE Tail(y),
                                  IF t < 0 THEN 1 ELSE 0)

BigSub(x, y) == BigTrim(BigSubB(x, y, 0))

\* x * s + c for a small s (s < Base)
RECURSIVE BigMulSmall(_, _, _)
BigMulSmall(x, s, c) ==
  IF x = <<>> THEN BigOfInt(c)
  ELSE LET t == Head(x) * s + c
       IN <<t % Base>> \o BigMulSmall(Tail(x), s, t \div Base)

RECURSIVE BigMul(_, _)
BigMul(x, y) ==
  IF x = <<>> \/ y = <<>> THEN <<>>
  ELSE BigTrim(BigAdd(BigMulSmall(x, Head(y), 0),
                      IF Tail(y) = <<>> THEN <<>>
                      ELSE <<0>> \o BigMul(x, Tail(y))))

\* quotient and remainder of x by a small s (0 < s < Base), high limb first
RECURSIVE BigDivSmallR(_, _, _)
BigDivSmallR(x, s, i) ==
  IF i > Len(x) THEN [q |-> <<>>, r |-> 0]
  ELSE LET hi == BigDivSmallR(x, s, i + 1)
           t  == hi.r * Base + x[i]
       IN [q |-> <<t \div s>> \o hi.q, r |-> t % s]

BigDivSmall(x, s) ==
  LET d == BigDivSmallR(x, s, 1) IN [q |-> BigTrim(d.q), r |-> d.r]

\* -1, 0, 1 as x < y, x = y, x > y
RECURSIVE BigCmpAt(_, _, _)
BigCmpAt(x, y, i) ==
  IF i = 0 THEN 0
  ELSE IF x[i] < y[i] THEN -1
  ELSE IF x[i] > y[i] THEN 1
  ELSE BigCmpAt(x, y, i - 1)

BigCmp(x, y) ==
  IF Len(x) < Len(y) THEN -1
  ELSE IF Len(x) > Len(y) THEN 1
  ELSE BigCmpAt(x, y, Len(x))

RECURSIVE IntBits(_)
IntBits(n) == IF n = 0 THEN 0 ELSE 1 + IntBits(n \div 2)

BigBits(x) == IF x = <<>> THEN 0 ELSE LimbBits * (Len(x) - 1) + IntBits(x[Len(x)])

BigShl(x, sh) ==
  IF x = <<>> THEN <<>>
  ELSE [i \in 1..(sh \div LimbBits) |-> 0] \o BigMulSmall(x, Pow2(sh % LimbBits), 0)

BigShr(x, sh) ==
  IF sh \div LimbBits >= Len(x) THEN <<>>
  ELSE BigDivSmall(SubSeq(x, (sh \div LimbBits) + 1, Len(x)), Pow2(sh % LimbBits)).q

BigIsOdd(x) == x # <<>> /\ x[1] % 2 = 1

\* ------------------------------------------------------------------------
\* IEEE-754 binary64, non-negative finite values
\* ------------------------------------------------------------------------
MantBits == 53

FZero == [m |-> <<>>, e |-> 0]

\* The float nearest to (M + f) * 2^E, where 0 <= f < 1 and sticky says f > 0:
\* round to nearest, ties to even.
FRound(M, E, sticky) ==
  IF M = <<>> THEN FZero
  ELSE LET n == BigBits(M) IN
    IF n <= MantBits
    THEN [m |-> BigShl(M, MantBits - n), e |-> E - (MantBits - n)]
    ELSE LET s    == n - MantBits
             q    == BigShr(M, s)
             rem  == BigSub(M, BigShl(q, s))
             half == BigShl(<<1>>, s - 1)
             c    == BigCmp(rem, half)
             up   == c > 0 \/ (c = 0 /\ (sticky \/ BigIsOdd(q)))
             r    == IF up THEN BigAdd(q, <<1>>) ELSE q
         IN IF BigBits(r) > MantBits
            THEN [m |-> BigShr(r, 1), e |-> E + s + 1]
            ELSE [m |-> r, e |-> E + s]

FOfInt(n) == FRound(BigOfInt(n), 0, FALSE)

FMul(x, y) == FRound(BigMul(x.m, y.m), x.e + y.e, FALSE)

\* x / n for a Python int n (0 < n < Base), which Python converts to a float
\* first; the quotient is rounded once.
FDivInt(x, n) ==
  LET d == BigDivSmall(BigShl(x.m, 72), n)
  IN FRound(d.q, x.e - 72, d.r # 0)

FAdd(x, y) ==
  IF x.m = <<>> THEN y
  ELSE IF y.m = <<>> THEN x
  ELSE LET e == Min2(x.e, y.e)
       IN FRound(BigAdd(BigShl(x.m, x.e - e), BigShl(y.m, y.e - e)), e, FALSE)

\* -1, 0, 1 as x < y, x = y, x > y
FCmp(x, y) ==
  IF x.m = <<>> /\ y.m = <<>> THEN 0
  ELSE IF x.m = <<>> THEN -1
  ELSE IF y.m = <<>> THEN 1
  ELSE IF x.e < y.e THEN -1
  ELSE IF x.e > y.e THEN 1
  ELSE BigCmp(x.m, y.m)

\* x - y for x >= y
FSub(x, y) ==
  IF y.m = <<>> THEN x
  ELSE LET e == Min2(x.e, y.e)
       IN FRound(BigSub(BigShl(x.m, x.e - e), BigShl(y.m, y.e - e)), e, FALSE)

FOne == FOfInt(1)

\* round(x, 6) as a count of millionths: Python rounds the exact binary value
\* of x to 6 decimals, ties to even (float.__round__ via correctly rounded
\* decimal conversion).  Values of this program have e < 0 or are 0 or 1.
Millionths(x) ==
  IF x.m = <<>> THEN 0
  ELSE IF x.e >= 0 THEN BigToInt(BigShl(BigMulSmall(BigMulSmall(x.m, 1000, 0), 1000, 0), x.e))
  ELSE LET S    == BigMulSmall(BigMulSmall(x.m, 1000, 0), 1000, 0)
           q    == BigShr(S, -x.e)
           rem  == BigSub(S, BigShl(q, -x.e))
           half == BigShl(<<1>>, -x.e - 1)
           c    == BigCmp(rem, half)
           up   == c > 0 \/ (c = 0 /\ BigIsOdd(q))
       IN BigToInt(q) + (IF up THEN 1 ELSE 0)

\* The float nearest to n / 10^6 (what parsing the rounded decimal gives).
FOfMillionths(n) ==
  LET d1 == BigDivSmall(BigShl(BigOfInt(n), 90), 1000)
      d2 == BigDivSmall(d1.q, 1000)
  IN FRound(d2.q, -90, d1.r # 0 \/ d2.r # 0)

Round6(x) == FOfMillionths(Millionths(x))

\* ------------------------------------------------------------------------
\* stringdist.py
\* ------------------------------------------------------------------------
Alphabet == {"a", "b"}

\* all strings over the alphabet up to MaxLen, and the runs "a", "aa", ...
Strings == UNION {[1..n -> Alphabet] : n \in 0..MaxLen}
Runs == {[i \in 1..n |-> "a"] : n \in 1..MaxRun}

\* the strings of the reference cases of test_stringcluster.py
MARTHA == <<"M", "A", "R", "T", "H", "A">>
MARHTA == <<"M", "A", "R", "H", "T", "A">>
DWAYNE == <<"D", "W", "A", "Y", "N", "E">>
DUANE == <<"D", "U", "A", "N", "E">>
DIXON == <<"D", "I", "X", "O", "N">>
DICKSONX == <<"D", "I", "C", "K", "S", "O", "N", "X">>
Fixtures == {MARTHA, MARHTA, DWAYNE, DUANE, DIXON, DICKSONX}

JARO_WEIGHT_STRING_A == FDivInt(FOne, 3)
JARO_WEIGHT_STRING_B == FDivInt(FOne, 3)
JARO_WEIGHT_TRANSPOSITIONS == FDivInt(FOne, 3)

JARO_WINKLER_PREFIX_SIZE == 4
JARO_WINKLER_SCALING_FACTOR == FDivInt(FOne, 10)
JARO_WINKLER_BOOST_THRESHOLD == FDivInt(FOfInt(7), 10)

\* max_range computed from the first string only
MaxRangeOfA(string_a, string_b) ==
  Max2(0, (Len(string_a) \div 2) - 1)

\* max_range without the clamp at 0
MaxRangeNoClamp(string_a, string_b) ==
  (Max2(Len(string_a), Len(string_b)) \div 2) - 1

\* max_range = max(0, max(a_len, b_len) // 2 - 1)
MaxRange(string_a, string_b) ==
  Max2(0, (Max2(Len(string_a), Len(string_b)) \div 2) - 1)

\* the first b_idx of the window [min_idx, max_idx) that is unmatched and
\* holds the character string_a[a_idx]; -1 when there is none (0-based)
RECURSIVE FirstMatch(_, _, _, _, _, _)
FirstMatch(string_a, string_b, b_match, a_idx, b_idx, max_idx) ==
  IF b_idx >= max_idx THEN -1
  ELSE IF ~b_match[b_idx + 1] /\ string_a[a_idx + 1] = string_b[b_idx + 1]
       THEN b_idx
       ELSE FirstMatch(string_a, string_b, b_match, a_idx, b_idx + 1, max_idx)

\* the matching loop over a_idx; yields a_match, b_match and char_matches
RECURSIVE MatchLoop(_, _, _, _, _, _)
MatchLoop(string_a, string_b, a_idx, a_match, b_match, char_matches) ==
  IF a_idx >= Len(string_a)
  THEN [a_match |-> a_match, b_match |-> b_match, char_matches |-> char_matches]
  ELSE LET max_range == MaxRange(string_a, string_b)
           min_idx   == Max2(a_idx - max_range, 0)
           max_idx   == Min2(a_idx + max_range + 1, Len(string_b))
       IN IF min_idx >= max_idx
          THEN [a_match |-> a_match, b_match |-> b_match,
                char_matches |-> char_matches]
          ELSE LET b_idx == FirstMatch(string_a, string_b, b_match,
                                       a_idx, min_idx, max_idx)
               IN IF b_idx = -1
                  THEN MatchLoop(string_a, string_b, a_idx + 1,
                                 a_match, b_match, char_matches)
                  ELSE MatchLoop(string_a, string_b, a_idx + 1,
                                 [a_match EXCEPT ![a_idx + 1] = TRUE],
                                 [b_match EXCEPT ![b_idx + 1] = TRUE],
                                 char_matches + 1)

Matching(string_a, string_b) ==
  MatchLoop(string_a, string_b, 0,
            [i \in 1..Len(string_a) |-> FALSE],
            [i \in 1..Len(string_b) |-> FALSE], 0)

\* a_pos / b_pos: the matched indices in increasing order (0-based values)
RECURSIVE Positions(_, _)
Positions(match, idx) ==
  IF idx >= Len(match) THEN <<>>
  ELSE (IF match[idx + 1] THEN <<idx>> ELSE <<>>) \o Positions(match, idx + 1)

RECURSIVE CountTranspositions(_, _, _, _, _)
CountTranspositions(string_a, string_b, a_pos, b_pos, i) ==
  IF i > Len(a_pos) THEN 0
  ELSE (IF string_a[a_pos[i] + 1] # string_b[b_pos[i] + 1] THEN 1 ELSE 0)
       + CountTranspositions(string_a, string_b, a_pos, b_pos, i + 1)

Transpositions(string_a, string_b) ==
  LET mt == Matching(string_a, string_b)
  IN CountTranspositions(string_a, string_b,
                         Positions(mt.a_match, 0), Positions(mt.b_match, 0), 1)

jaroDistance(string_a, string_b) ==
  LET a_len == Len(string_a)
      b_len == Len(string_b)
  IN IF 0 = a_len \/ 0 = b_len THEN FZero
     ELSE LET char_matches == Matching(string_a, string_b).char_matches
          IN IF 0 = char_matches THEN FZero
             ELSE LET transpositions == Transpositions(string_a, string_b)
                  IN FAdd(FAdd(FDivInt(FMul(JARO_WEIGHT_STRING_A,
                                            FOfInt(char_matches)), a_len),
                               FDivInt(FMul(JARO_WEIGHT_STRING_B,
                                            FOfInt(char_matches)), b_len)),
                          FDivInt(FMul(JARO_WEIGHT_TRANSPOSITIONS,
                                       FOfInt(char_matches
                                              - (transpositions \div 2))),
                                  char_matches))

\* the prefix loop running to the end of the shorter string, whatever end_idx
RECURSIVE CommonPrefixUncapped(_, _, _, _)
CommonPrefixUncapped(string_a, string_b, i, end_idx) ==
  IF i >= Min2(Len(string_a), Len(string_b)) THEN 0
  ELSE IF string_a[i + 1] = string_b[i + 1]
       THEN 1 + CommonPrefixUncapped(string_a, string_b, i + 1, end_idx)
       ELSE 0

\* the prefix loop without its break: every equal position below end_idx
RECURSIVE CommonPrefixNoBreak(_, _, _, _)
CommonPrefixNoBreak(string_a, string_b, i, end_idx) ==
  IF i >= end_idx THEN 0
  ELSE (IF string_a[i + 1] = string_b[i + 1] THEN 1 ELSE 0)
       + CommonPrefixNoBreak(string_a, string_b, i + 1, end_idx)

RECURSIVE CommonPrefix(_, _, _, _)
CommonPrefix(string_a, string_b, i, end_idx) ==
  IF i >= end_idx THEN 0
  ELSE IF string_a[i + 1] = string_b[i + 1]
       THEN 1 + CommonPrefix(string_a, string_b, i + 1, end_idx)
       ELSE 0

jaroWinklerDistance(string_a, string_b) ==
  LET distance == jaroDistance(string_a, string_b)
  IN IF FCmp(distance, JARO_WINKLER_BOOST_THRESHOLD) > 0
     THEN LET end_idx == Min2(Min2(Len(string_a), Len(string_b)),
                              JARO_WINKLER_PREFIX_SIZE)
              common_prefix == CommonPrefix(string_a, string_b, 0, end_idx)
          IN FAdd(distance,
                  FMul(FMul(JARO_WINKLER_SCALING_FACTOR, FOfInt(common_prefix)),
                       FSub(FOne, distance)))
     ELSE distance

\* ------------------------------------------------------------------------
\* clusterengine.py : DistanceMatrix
\* ------------------------------------------------------------------------
Range(s) == {s[i] : i \in DOMAIN s}

\* the int -1 that dist() returns for a pair that is not stored
MinusOne == [m |-> <<-1>>, e |-> 0]

\* Python's < on the values dist() returns (floats and the int -1)
PyLess(x, y) ==
  IF y = MinusOne THEN FALSE
  ELSE IF x = MinusOne THEN TRUE
  ELSE FCmp(x, y) < 0

\* distMap is a dict of dicts: first element -> (second element -> float)
EmptyDict == [x \in {} |-> FZero]

\* the strings an element collection is made of
ElemStrings == {<<>>, <<"a">>, <<"a", "a">>, <<"a", "b">>}

\* the strings the collections of pairwise distinct elements are made of:
\* "aaa" and "baa" have the same similarities, in a different order, to the
\* other elements of ["a", "aaa", "baa", "b"]
DistinctStrings == {<<"a">>, <<"a", "a", "a">>, <<"b", "a", "a">>, <<"b">>}

\* round(self.getDist(first, second), 6) with getDist = jaroWinklerDistance,
\* over the strings an element collection can hold.  (@@ turns the function
\* into an explicit table, so that each value is computed once.)
StoredDist ==
  [first \in ElemStrings \cup DistinctStrings,
   second \in ElemStrings \cup DistinctStrings |->
     Round6(jaroWinklerDistance(first, second))] @@ EmptyDict

\* the loops of __init__ from position (i, j) on; st carries distMap and the
\* list of getDist evaluations made so far
RECURSIVE BuildLoop(_, _, _, _)
BuildLoop(elems_, i, j, st) ==
  IF i > Len(elems_) THEN st
  ELSE IF j > Len(elems_) THEN BuildLoop(elems_, i + 1, 1, st)
  ELSE LET first  == elems_[i]
           second == elems_[j]
       IN IF first \notin DOMAIN st.distMap[second]
          THEN BuildLoop(elems_, i, j + 1,
                 [distMap |-> [st.distMap EXCEPT ![first] =
                                 (second :> StoredDist[first, second]) @@ @],
                  calls   |-> Append(st.calls, <<first, second>>)])
          ELSE BuildLoop(elems_, i, j + 1, st)

DistanceMatrix(elems_) ==
  BuildLoop(elems_, 1, 1,
            [distMap |-> [e \in Range(elems_) |-> EmptyDict], calls |-> <<>>])

\* dist() without the fallback to the reverse direction
distDirectOnly(distMap_, elem_a, elem_b) ==
  IF elem_a \in DOMAIN distMap_ /\ elem_b \in DOMAIN distMap_[elem_a]
  THEN distMap_[elem_a][elem_b]
  ELSE MinusOne

\* dist() answering 0.0 for a pair that is not stored
distDefaultZero(distMap_, elem_a, elem_b) ==
  IF elem_a \in DOMAIN distMap_ /\ elem_b \in DOMAIN distMap_[elem_a]
  THEN distMap_[elem_a][elem_b]
  ELSE IF elem_b \in DOMAIN distMap_ /\ elem_a \in DOMAIN distMap_[elem_b]
  THEN distMap_[elem_b][elem_a]
  ELSE FZero

dist(distMap_, elem_a, elem_b) ==
  IF elem_a \in DOMAIN distMap_ /\ elem_b \in DOMAIN distMap_[elem_a]
  THEN distMap_[elem_a][elem_b]
  ELSE IF elem_b \in DOMAIN distMap_ /\ elem_a \in DOMAIN distMap_[elem_b]
  THEN distMap_[elem_b][elem_a]
  ELSE MinusOne

\* dist() looking its arguments up with setdefault(), which stores an empty
\* dict for a missing key
distMapAfterSetDefault(distMap_, elem_a, elem_b) ==
  [x \in (DOMAIN distMap_) \cup {elem_a, elem_b} |->
     IF x \in DOMAIN distMap_ THEN distMap_[x] ELSE EmptyDict]

\* self.distMap after dist(elem_a, elem_b): the lookups are
\* dict.get(key, {}) and dict.get(key), which store nothing
distMapAfter(distMap_, elem_a, elem_b) == distMap_

\* self.distMap after dist() has been called on the pairs of elems_ from
\* (elems_[i], elems_[j]) on; cluster() and findNewMedoid() look up pairs of
\* elements of the collection only
RECURSIVE distMapAfterAll(_, _, _, _)
distMapAfterAll(distMap_, elems_, i, j) ==
  IF i > Len(elems_) THEN distMap_
  ELSE IF j > Len(elems_) THEN distMapAfterAll(distMap_, elems_, i + 1, 1)
  ELSE distMapAfterAll(distMapAfter(distMap_, elems_[i], elems_[j]),
                       elems_, i, j + 1)

\* ------------------------------------------------------------------------
\* clusterengine.py : ClusterEngine
\* ------------------------------------------------------------------------
\* the element collections: every list over ElemStrings (duplicates
\* included) and every list of pairwise distinct DistinctStrings
ElemLists ==
  UNION {[1..n -> ElemStrings] : n \in 0..MaxElems}
  \cup {l \in UNION {[1..n -> DistinctStrings] : n \in 0..MaxElems} :
          \A i, j \in DOMAIN l : i # j => l[i] # l[j]}

None == [set |-> FALSE, val |-> <<>>]
Some(v) == [set |-> TRUE, val |-> v]

\* random.sample(population, k): every ordered choice of k distinct positions
Samples(population, k_) ==
  {[i \in 1..k_ |-> population[p[i]]] :
     p \in {f \in [1..k_ -> 1..Len(population)] :
              \A x, y \in 1..k_ : x # y => f[x] # f[y]}}

\* collections.Counter(list): the multiset of the list (empty for None)
Counter(list) ==
  [v \in Range(list) |-> Cardinality({i \in DOMAIN list : list[i] = v})]

\* max(list) and list.index(value) of a non-empty list
RECURSIVE PyMax(_, _, _)
PyMax(list, i, best) ==
  IF i > Len(list) THEN best
  ELSE PyMax(list, i + 1, IF PyLess(best, list[i]) THEN list[i] ELSE best)

RECURSIVE IndexFrom(_, _, _)
IndexFrom(list, v, i) ==
  IF list[i] = v THEN i ELSE IndexFrom(list, v, i + 1)

\* the last position of the maximum instead of the first
RECURSIVE IndexBackFrom(_, _, _)
IndexBackFrom(list, v, i) ==
  IF list[i] = v THEN i ELSE IndexBackFrom(list, v, i - 1)

IndexOfLastMax(list) == IndexBackFrom(list, PyMax(list, 2, list[1]), Len(list))

IndexOfMax(list) == IndexFrom(list, PyMax(list, 2, list[1]), 1)

\* sum(list): 0 + list[1] + list[2] + ..., added left to right
RECURSIVE PySum(_, _, _)
PySum(list, i, acc) ==
  IF i > Len(list) THEN acc ELSE PySum(list, i + 1, FAdd(acc, list[i]))

\* findNewMedoid() summing, for each member, over the other members only
findNewMedoidOthers(distMap_, group) ==
  LET each_sum_dists ==
        [mi \in 1..Len(group) |->
           PySum([ei \in 1..(Len(group) - 1) |->
                    dist(distMap_, group[mi],
                         group[IF ei < mi THEN ei ELSE ei + 1])],
                 1, FZero)]
  IN group[IndexOfMax(each_sum_dists)]

\* (@@ <<>> makes each_sum_dists a list of computed sums)
findNewMedoid(distMap_, group) ==
  LET each_sum_dists ==
        [mi \in 1..Len(group) |->
           PySum([ei \in 1..Len(group) |-> dist(distMap_, group[mi], group[ei])],
                 1, FZero)] @@ <<>>
  IN group[IndexOfMax(each_sum_dists)]

\* seeding one group per distinct medoid
RECURSIVE SeedDistinctFrom(_, _)
SeedDistinctFrom(medoids, i) ==
  IF i > Len(medoids) THEN <<>>
  ELSE (IF \E j \in 1..(i - 1) : medoids[j] = medoids[i]
        THEN <<>> ELSE <<<<medoids[i]>>>>)
       \o SeedDistinctFrom(medoids, i + 1)

SeedGroupsDistinct(medoids) == SeedDistinctFrom(medoids, 1)

\* result after "for m in current_medoids: self.result.append([m])"
SeedGroups(medoids) == [i \in 1..Len(medoids) |-> <<medoids[i]>>]

\* the assignment loop "for e in self.elems" from position idx on
RECURSIVE Assign(_, _, _, _, _)
Assign(distMap_, elems_, medoids, idx, groups) ==
  IF idx > Len(elems_) THEN groups
  ELSE LET e == elems_[idx]
       IN IF e \notin Range(medoids)
          THEN LET e_dists == [i \in 1..Len(medoids) |->
                                 dist(distMap_, medoids[i], e)]
                   closest_group_idx == IndexOfMax(e_dists)
               IN Assign(distMap_, elems_, medoids, idx + 1,
                         [groups EXCEPT ![closest_group_idx] = Append(@, e)])
          ELSE Assign(distMap_, elems_, medoids, idx + 1, groups)

\* "{}".format(n) for a natural number n: its decimal digits
RECURSIVE Format(_)
Format(n) ==
  LET digit == <<"0", "1", "2", "3", "4", "5", "6", "7", "8", "9">>[(n % 10) + 1]
  IN IF n < 10 THEN <<digit>> ELSE Format(n \div 10) \o <<digit>>

\* "\t{}\n".format(e) for every e of group, from member j on
RECURSIVE MemberLines(_, _)
MemberLines(group, j) ==
  IF j > Len(group) THEN <<>>
  ELSE <<"\t">> \o group[j] \o <<"\n">> \o MemberLines(group, j + 1)

\* asText() with every header numbered from 1
RECURSIVE TextOfOneBased(_, _)
TextOfOneBased(groups, i) ==
  IF i > Len(groups) THEN <<>>
  ELSE <<"G", "r", "o", "u", "p", " ">> \o Format(i) \o <<":", "\n">>
       \o MemberLines(groups[i], 1)
       \o TextOfOneBased(groups, i + 1)

\* asText(): the characters of the output; enumerate() numbers the groups
\* from 0, groups[i] is the group numbered i - 1
RECURSIVE TextOf(_, _)
TextOf(groups, i) ==
  IF i > Len(groups) THEN <<>>
  ELSE <<"G", "r", "o", "u", "p", " ">> \o Format(i - 1) \o <<":", "\n">>
       \o MemberLines(groups[i], 1)
       \o TextOf(groups, i + 1)

\* a test for the empty list only
FalsyEmptyOnly(result_) == result_.set /\ result_.val = <<>>

\* "not self.result": None and the empty list are falsy
Falsy(result_) == ~result_.set \/ result_.val = <<>>

\* ------------------------------------------------------------------------
\* The engine: construction, cluster(), asText(), asCSV()
\* ------------------------------------------------------------------------
\* ClusterEngine.__init__(k, elems)
Init ==
  /\ elems \in ElemLists
  /\ k \in 0..MaxK
  /\ LET dm == DistanceMatrix(elems)
     IN distMap = dm.distMap /\ calls = dm.calls
  /\ result = None
  /\ current_medoids = None /\ last_medoids = None
  /\ pc = "idle" /\ seen = {} /\ returned = FALSE
  /\ call = "init" /\ args = <<>> /\ err = "none" /\ out = None
  /\ unready = FALSE
  /\ sa = <<>> /\ sb = <<>> /\ jres = None

\* cluster() sampling before it checks for the empty collection
ClusterBeginSampleFirst ==
  /\ pc = "idle" /\ ~returned
  /\ call' = "cluster" /\ args' = <<>> /\ out' = None
  /\ IF k > Len(elems)
     THEN /\ err' = "ValueError: Sample larger than population"
          /\ UNCHANGED <<current_medoids, last_medoids, pc, seen>>
     ELSE IF elems = <<>>
     THEN /\ err' = "ValueError: Cannot cluster an empty set!"
          /\ \E s \in Samples(elems, k) : current_medoids' = Some(s)
          /\ UNCHANGED <<last_medoids, pc, seen>>
     ELSE /\ \E s \in Samples(elems, k) : current_medoids' = Some(s)
          /\ last_medoids' = None
          /\ pc' = "loop" /\ seen' = {}
          /\ err' = "none"
  /\ UNCHANGED <<k, elems, distMap, calls, result, returned, unready,
                 sa, sb, jres>>

\* cluster() up to its while loop: the empty check and the sampling.  An
\* engine is clustered until one call returns, as main() of stringcluster.py
\* and the tests do: a call that raised can be repeated.
ClusterBegin ==
  /\ pc = "idle" /\ ~returned
  /\ call' = "cluster" /\ args' = <<>> /\ out' = None
  /\ IF elems = <<>>
     THEN /\ err' = "ValueError: Cannot cluster an empty set!"
          /\ UNCHANGED <<current_medoids, last_medoids, pc, seen>>
     ELSE IF k > Len(elems)
     THEN /\ err' = "ValueError: Sample larger than population"
          /\ UNCHANGED <<current_medoids, last_medoids, pc, seen>>
     ELSE /\ \E s \in Samples(elems, k) : current_medoids' = Some(s)
          /\ last_medoids' = None
          /\ pc' = "loop" /\ seen' = {}
          /\ err' = "none"
  /\ UNCHANGED <<k, elems, distMap, calls, result, returned, unready,
                 sa, sb, jres>>

\* one pass of the while loop: seeding, assignment, new medoids
ClusterPass ==
  /\ pc = "loop"
  /\ Counter(last_medoids.val) # Counter(current_medoids.val)
  /\ LET groups == Assign(distMap, elems, current_medoids.val, 1,
                          SeedGroups(current_medoids.val))
     IN /\ result' = Some(groups)
        /\ last_medoids' = current_medoids
        /\ current_medoids' =
             Some([i \in 1..Len(groups) |-> findNewMedoid(distMap, groups[i])])
  /\ distMap' = distMapAfterAll(distMap, elems, 1, 1)
  /\ seen' = seen \cup {Counter(current_medoids.val)}
  /\ UNCHANGED <<k, elems, calls, pc, returned, call, args, err, out,
                 unready, sa, sb, jres>>

\* cluster() returning after its first pass, whatever the new medoids are
ClusterReturnAfterOnePass ==
  /\ pc = "loop"
  /\ last_medoids.set
  /\ pc' = "idle" /\ returned' = TRUE
  /\ UNCHANGED <<k, elems, distMap, calls, result, current_medoids,
                 last_medoids, seen, call, args, err, out, unready,
                 sa, sb, jres>>

\* the while condition fails: cluster() returns self
ClusterReturn ==
  /\ pc = "loop"
  /\ Counter(last_medoids.val) = Counter(current_medoids.val)
  /\ pc' = "idle" /\ returned' = TRUE
  /\ UNCHANGED <<k, elems, distMap, calls, result, current_medoids,
                 last_medoids, seen, call, args, err, out, unready,
                 sa, sb, jres>>

asText ==
  /\ pc = "idle"
  /\ call' = "asText" /\ args' = <<>>
  /\ IF Falsy(result)
     THEN err' = "InvalidStateError" /\ out' = None /\ unready' = TRUE
     ELSE err' = "none" /\ out' = Some(TextOf(result.val, 1))
          /\ UNCHANGED unready
  /\ UNCHANGED <<engineVars, sa, sb, jres>>

asCSV ==
  /\ pc = "idle"
  /\ call' = "asCSV" /\ args' = <<>> /\ out' = None
  /\ IF Falsy(result)
     THEN err' = "InvalidStateError" /\ unready' = TRUE
     ELSE err' = "none" /\ UNCHANGED unready
  /\ UNCHANGED <<engineVars, sa, sb, jres>>

\* dist() called by a client on the cache of a freshly constructed engine
\* (self.distMat is a public field), any number of times, with any two
\* strings: elements of the collection or not
Lookup ==
  /\ pc = "idle" /\ call \in {"init", "dist"}
  /\ \E elem_a, elem_b \in ElemStrings :
       /\ args' = <<elem_a, elem_b>>
       /\ out' = Some(dist(distMap, elem_a, elem_b))
       /\ distMap' = distMapAfter(distMap, elem_a, elem_b)
  /\ call' = "dist" /\ err' = "none"
  /\ UNCHANGED <<k, elems, calls, result, current_medoids, last_medoids, pc,
                 seen, returned, unready, sa, sb, jres>>

Next ==
  ClusterBegin \/ ClusterPass \/ ClusterReturn \/ asText \/ asCSV \/ Lookup

Spec == Init /\ [][Next]_vars

\* ------------------------------------------------------------------------
\* A DistanceMatrix on its own, queried through dist()
\* ------------------------------------------------------------------------
InitC ==
  /\ elems \in ElemLists
  /\ k = 0
  /\ LET dm == DistanceMatrix(elems)
     IN distMap = dm.distMap /\ calls = dm.calls
  /\ result = None
  /\ current_medoids = None /\ last_medoids = None
  /\ pc = "idle" /\ seen = {} /\ returned = FALSE
  /\ call = "init" /\ args = <<>> /\ err = "none" /\ out = None
  /\ unready = FALSE
  /\ sa = <<>> /\ sb = <<>> /\ jres = None

NextC == Lookup

CacheSpec == InitC /\ [][NextC]_vars

\* ------------------------------------------------------------------------
\* The similarity functions on their own
\* ------------------------------------------------------------------------
InitJ ==
  /\ sa \in Strings \cup Runs \cup Fixtures
  /\ sb \in Strings \cup Runs \cup Fixtures
  /\ jres = None
  /\ elems = <<>> /\ k = 0
  /\ distMap = EmptyDict /\ calls = <<>>
  /\ result = None
  /\ current_medoids = None /\ last_medoids = None
  /\ pc = "idle" /\ seen = {} /\ returned = FALSE
  /\ call = "init" /\ args = <<>> /\ err = "none" /\ out = None
  /\ unready = FALSE

\* both functions applied to (sa, sb) and to (sb, sa)
Evaluate ==
  /\ ~jres.set
  /\ jres' = Some([jaro    |-> jaroDistance(sa, sb),
                   jaroRev |-> jaroDistance(sb, sa),
                   jw      |-> jaroWinklerDistance(sa, sb),
                   jwRev   |-> jaroWinklerDistance(sb, sa)])
  /\ UNCHANGED <<engineVars, call, args, err, out, unready, sa, sb>>

NextJ == Evaluate

JaroSpec == InitJ /\ [][NextJ]_vars

\* ------------------------------------------------------------------------
\* Properties of the engine (Spec)
\* ------------------------------------------------------------------------
RECURSIVE Flatten(_, _)
Flatten(groups, i) ==
  IF i > Len(groups) THEN <<>> ELSE groups[i] \o Flatten(groups, i + 1)

\* cluster() has returned normally with a Result (so 1 <= k <= len(elems))
Returned == pc = "idle" /\ result.set

\* C1: when cluster() has returned, the groups of the Result hold every input
\* element exactly once: as multisets, the members of all groups together
\* are the input collection.  (Violated by the code when the input holds the
\* same string twice.)
C1_Partition ==
  Returned => Counter(Flatten(result.val, 1)) = Counter(elems)

\* C2: after every assignment pass, and so in the final Result, there are
\* exactly k groups, none of them empty, and with k = 1 the single group
\* holds every input element.
C2_GroupCount ==
  result.set =>
    /\ Len(result.val) = k
    /\ \A i \in 1..Len(result.val) : result.val[i] # <<>>
    /\ k = 1 => Range(elems) \subseteq Range(result.val[1])

\* after the first pass over four elements, two groups of two
C2_Witness ==
  /\ pc = "loop" /\ result.set /\ k = 2 /\ Cardinality(seen) = 1
  /\ Len(result.val[1]) = 2 /\ Len(result.val[2]) = 2 /\ Len(elems) = 4

\* C3: the while loop of cluster() terminates.  A pass is a function of the
\* medoid list alone and there are finitely many lists, so the loop runs for
\* ever exactly when it comes back to medoids it has already started a pass
\* from.  The claim is that it never does: the medoids a pass selects either
\* equal, as a multiset, the ones it started from (the loop then exits) or
\* form a multiset no earlier pass of this call started from (no A -> B -> A).
\* (Violated by the code when the input holds the same string twice.)
C3_Terminates ==
  [][ClusterPass =>
        \/ Counter(current_medoids'.val) = Counter(last_medoids'.val)
        \/ Counter(current_medoids'.val) \notin seen'
    ]_vars

\* C4: cluster() on an empty element collection raises the empty-input error
\* and changes nothing: the result stays None and no medoids are sampled; an
\* accessor called afterwards raises InvalidStateError.
C4_EmptyInput ==
  [][ /\ (ClusterBegin /\ elems = <<>>) =>
          /\ err' = "ValueError: Cannot cluster an empty set!"
          /\ result = None /\ result' = None
          /\ UNCHANGED <<engineVars>>
      /\ ((asText \/ asCSV) /\ elems = <<>>) => err' = "InvalidStateError"
    ]_vars

C4_Witness ==
  /\ elems = <<>> /\ unready
  /\ call = "cluster" /\ err = "ValueError: Cannot cluster an empty set!"

\* no cluster() call on this engine has converged so far
NoConvergedCall == pc = "idle" /\ ~returned

\* C5: while no cluster() call has converged, asText() and asCSV() raise
\* InvalidStateError and leave the engine as it was, and cluster() can still
\* be called afterwards.
C5_Unready ==
  /\ [][ ((asText \/ asCSV) /\ NoConvergedCall) =>
           /\ err' = "InvalidStateError"
           /\ UNCHANGED <<engineVars>>
       ]_vars
  /\ [](NoConvergedCall => (~result.set /\ ENABLED ClusterBegin))

\* an accessor has raised, and a later cluster() has converged
C5_Witness ==
  /\ unready /\ Returned /\ call = "cluster" /\ err = "none"
  /\ Len(elems) >= 2

\* ------------------------------------------------------------------------
\* Properties of the DistanceMatrix (CacheSpec)
\* ------------------------------------------------------------------------
\* the last operation was dist(args[1], args[2])
Looked == call = "dist"

C7_NotFound ==
  /\ [][Lookup => distMap' = distMap]_vars
  /\ []((Looked /\ (args[1] \notin Range(elems) \/ args[2] \notin Range(elems)))
          => /\ out.val = MinusOne
             /\ dist(distMap, args[2], args[1]) = MinusOne
             /\ err = "none")

\* one element of the pair is in the collection, the other is not
C7_Witness ==
  /\ Looked /\ args[1] \in Range(elems) /\ args[2] \notin Range(elems)
  /\ out.val = MinusOne /\ Len(elems) = 3

\* the evaluations of getDist on the pair {a, b}, in either order
EvalsOf(a, b) == {i \in DOMAIN calls : calls[i] \in {<<a, b>>, <<b, a>>}}

\* C9: building the matrix over n elements evaluates the similarity function
\* exactly once for every unordered pair of elements, self-pairs included,
\* n(n+1)/2 evaluations in all, and never for both (a, b) and (b, a).
\* (Violated by the code when an element occurs twice: the self-pair of a
\* repeated element is evaluated once only, and the pair it forms with another
\* element is evaluated again for every repetition.)
C9_EvaluatedOnce ==
  /\ Len(calls) = (Len(elems) * (Len(elems) + 1)) \div 2
  /\ \A a, b \in Range(elems) : Cardinality(EvalsOf(a, b)) = 1
  /\ \A i, j \in DOMAIN calls :
       calls[i][1] # calls[i][2] => calls[j] # <<calls[i][2], calls[i][1]>>

\* ------------------------------------------------------------------------
\* Properties of the similarity functions (JaroSpec)
\* ------------------------------------------------------------------------
\* C8: jaroDistance and jaroWinklerDistance are commutative: whichever string
\* is scanned first, the match count, the transposition count and the two
\* results are the same.
C8_Commutative ==
  jres.set =>
    /\ jres.val.jaro = jres.val.jaroRev
    /\ jres.val.jw = jres.val.jwRev
    /\ Matching(sa, sb).char_matches = Matching(sb, sa).char_matches
    /\ Transpositions(sa, sb) = Transpositions(sb, sa)

\* strings of different lengths with a transposition between them
C8_Witness ==
  /\ jres.set /\ Len(sa) < Len(sb)
  /\ Transpositions(sa, sb) >= 2
  /\ FCmp(jres.val.jaro, jres.val.jw) < 0

\* C10 as stated: jaro(a, a) is 1.0 for every non-empty a, and jaro is 0.0
\* when either string is empty.  (Fails for a string of 25 characters, where
\* the three rounded terms add up to 0.9999999999999998.)
C10_Original ==
  jres.set =>
    /\ (sa = sb /\ sa # <<>>) => jres.val.jaro = FOne
    /\ (sa = <<>> \/ sb = <<>>) => jres.val.jaro = FZero

\* C10 amended: for a non-empty a every character is matched and there is no
\* transposition, and jaro(a, a) is 1.0 after rounding to 6 decimals (it is
\* exactly 1.0 for strings shorter than 25 characters); jaro is exactly 0.0
\* when either string is empty.
C10_SelfAndEmpty ==
  jres.set =>
    /\ (sa = sb /\ sa # <<>>) =>
         /\ Matching(sa, sb).char_matches = Len(sa)
         /\ Transpositions(sa, sb) = 0
         /\ Round6(jres.val.jaro) = FOne
         /\ Len(sa) < 25 => jres.val.jaro = FOne
    /\ (sa = <<>> \/ sb = <<>>) =>
         jres.val.jaro = FZero /\ jres.val.jaroRev = FZero

\* a string of 25 characters compared with itself
C10_Witness ==
  /\ jres.set /\ sa = sb /\ Len(sa) = 25
  /\ jres.val.jaro # FOne /\ Round6(jres.val.jaro) = FOne

\* the matching of one reference case: match count, transposition count,
\* common prefix, and the two results as millionths (rounded to 6 decimals)
FixtureIs(a, b, m, t, p, jaro6, jw6) ==
  (jres.set /\ sa = a /\ sb = b) =>
    /\ Matching(sa, sb).char_matches = m
    /\ Transpositions(sa, sb) = t
    /\ CommonPrefix(sa, sb, 0, JARO_WINKLER_PREFIX_SIZE) = p
    /\ Millionths(jres.val.jaro) = jaro6
    /\ Millionths(jres.val.jw) = jw6

\* C11: the reference cases are reproduced to 6 decimals: MARTHA/MARHTA gives
\* 0.944444 and 0.961111 (6 matches, 2 transposed characters, prefix 3),
\* DWAYNE/DUANE gives 0.822222 and 0.84 (4 matches, none transposed, prefix
\* 1), DIXON/DICKSONX gives 0.766667 and 0.813333 (4 matches, none
\* transposed, prefix 2).
C11_Fixtures ==
  /\ FixtureIs(MARTHA, MARHTA, 6, 2, 3, 944444, 961111)
  /\ FixtureIs(DWAYNE, DUANE, 4, 0, 1, 822222, 840000)
  /\ FixtureIs(DIXON, DICKSONX, 4, 0, 2, 766667, 813333)

\* DWAYNE/DUANE has been evaluated, and the prefix bonus was applied
C11_Witness ==
  /\ jres.set /\ sa = DWAYNE /\ sb = DUANE
  /\ FCmp(jres.val.jaro, jres.val.jw) < 0

\* ------------------------------------------------------------------------
\* Further properties of the engine (Spec)
\* ------------------------------------------------------------------------
\* cluster() has returned normally on non-empty input with 1 <= k <= len
Converged == pc = "idle" /\ returned /\ 1 <= k /\ k <= Len(elems)

\* the lines of a text: the characters between its line feeds
RECURSIVE LinesOf(_, _, _)
LinesOf(text, i, cur) ==
  IF i > Len(text) THEN (IF cur = <<>> THEN <<>> ELSE <<cur>>)
  ELSE IF text[i] = "\n" THEN <<cur>> \o LinesOf(text, i + 1, <<>>)
  ELSE LinesOf(text, i + 1, Append(cur, text[i]))

\* the number of lines that come before the header of group g
RECURSIVE LinesBefore(_, _)
LinesBefore(groups, g) ==
  IF g = 1 THEN 0 ELSE LinesBefore(groups, g - 1) + 1 + Len(groups[g - 1])

\* text is the rendering of groups: for each group in ascending order a
\* header line carrying its 0-based index, then one tab-indented line per
\* member in member order, every line ended by a line feed, nothing else
Rendered(text, groups) ==
  LET lines == LinesOf(text, 1, <<>>)
  IN /\ text # <<>> => text[Len(text)] = "\n"
     /\ Len(lines) = LinesBefore(groups, Len(groups) + 1)
     /\ \A g \in 1..Len(groups) :
          /\ lines[LinesBefore(groups, g) + 1]
               = <<"G", "r", "o", "u", "p", " ">> \o Format(g - 1) \o <<":">>
          /\ \A j \in 1..Len(groups[g]) :
               lines[LinesBefore(groups, g) + 1 + j] = <<"\t">> \o groups[g][j]

\* C12: whenever cluster() has returned normally on non-empty input with
\* 1 <= k <= len(elems) the engine holds a Result, and an asText() called
\* then does not raise, changes nothing in the engine and returns exactly
\* the rendering of the groups of the Result.
C12_AsText ==
  /\ [](Converged => (result.set /\ result.val # <<>>))
  /\ [][ (asText /\ Converged) =>
           /\ err' = "none" /\ out'.set
           /\ Rendered(out'.val, result.val)
           /\ UNCHANGED <<engineVars>>
       ]_vars

\* asText() has rendered two groups of different sizes
C12_Witness ==
  /\ Converged /\ call = "asText" /\ err = "none" /\ out.set
  /\ k = 2 /\ Len(result.val[1]) = 3 /\ Len(result.val[2]) = 1

\* the number of times e occurs in list from position i on
Occurrences(list, e, i) == Cardinality({j \in i..Len(list) : list[j] = e})

\* the cached similarity of two elements of the collection
Similarity(a, b) == dist(distMap, a, b)

\* C13: at the end of every pass (the medoids it used are last_medoids,
\* the groups it built are result), every member of a group after its seed
\* is not a medoid, no medoid is more similar to it than the medoid of its
\* group, every medoid of a lower group index is strictly less similar to
\* it, and every input element that is not a medoid has been appended once
\* per occurrence in the input.
C13_Assignment ==
  (pc = "loop" /\ result.set /\ last_medoids.set) =>
    LET groups  == result.val
        medoids == last_medoids.val
    IN /\ \A g \in 1..Len(groups) : \A j \in 2..Len(groups[g]) :
            LET e == groups[g][j]
            IN /\ e \notin Range(medoids)
               /\ \A h \in 1..Len(medoids) :
                    /\ FCmp(Similarity(medoids[h], e),
                            Similarity(medoids[g], e)) <= 0
                    /\ h < g => FCmp(Similarity(medoids[h], e),
                                     Similarity(medoids[g], e)) < 0
       /\ \A e \in Range(elems) \ Range(medoids) :
            \E g \in 1..Len(groups) :
              /\ Occurrences(groups[g], e, 2) = Occurrences(elems, e, 1)
              /\ \A h \in 1..Len(groups) :
                   h # g => Occurrences(groups[h], e, 2) = 0

\* a pass with two medoids has put one element into the first group on a
\* tie and another into the second group on a strictly larger similarity
C13_Witness ==
  /\ pc = "loop" /\ result.set /\ last_medoids.set /\ k = 2
  /\ Len(result.val[1]) >= 2 /\ Len(result.val[2]) >= 2
  /\ Similarity(last_medoids.val[1], result.val[1][2])
       = Similarity(last_medoids.val[2], result.val[1][2])
  /\ FCmp(Similarity(last_medoids.val[1], result.val[2][2]),
          Similarity(last_medoids.val[2], result.val[2][2])) < 0

\* the similarities of member mi of group to the members at the positions
\* of others, added up in group order from position ei on, starting at acc
RECURSIVE SumFrom(_, _, _, _, _)
SumFrom(group, mi, others, ei, acc) ==
  IF ei > Len(group) THEN acc
  ELSE SumFrom(group, mi, others, ei + 1,
               IF ei \in others
               THEN FAdd(acc, Similarity(group[mi], group[ei]))
               ELSE acc)

SumOver(group, mi, others, ei) == SumFrom(group, mi, others, ei, FZero)

\* the sum of every member of group over the positions Scope gives it
SumsOf(group, Scope(_, _)) ==
  [mi \in 1..Len(group) |-> SumOver(group, mi, Scope(group, mi), 1)] @@ <<>>

\* in the list sums, position mi holds the maximum and is the first to
Best(sums, mi) ==
  \A mj \in 1..Len(sums) :
    LET c == FCmp(sums[mj], sums[mi])
    IN c <= 0 /\ (mj < mi => c < 0)

\* member mi has the maximal sum over the positions Scope gives and is the
\* first member that has it
FirstBest(group, Scope(_, _), mi) == Best(SumsOf(group, Scope), mi)

EveryOther(group, mi) == (1..Len(group)) \ {mi}
EveryMember(group, mi) == 1..Len(group)

\* a pass has just ended: result holds its groups, current_medoids the
\* medoids it selected from them
Selected ==
  pc = "loop" /\ result.set /\ last_medoids.set /\ current_medoids.set

C15_Immutable ==
  [][ /\ distMap' = distMap /\ calls' = calls
      /\ elems' = elems /\ k' = k
    ]_vars

\* the cache of an engine that has clustered in more than one pass is the
\* one its constructor built
C15_Witness ==
  /\ Returned /\ Cardinality(seen) >= 2 /\ Len(elems) = MaxElems
  /\ distMap = DistanceMatrix(elems).distMap
  /\ \E a \in ElemStrings : a \notin DOMAIN distMap

\* ------------------------------------------------------------------------
\* Further properties of the similarity functions (JaroSpec)
\* ------------------------------------------------------------------------
\* the common prefix jaroWinklerDistance(a, b) counts
PrefixOf(a, b) ==
  CommonPrefix(a, b, 0, Min2(Min2(Len(a), Len(b)), JARO_WINKLER_PREFIX_SIZE))

\* C16: 0.0 <= jaro(a, b) <= jaroWinkler(a, b) <= 1.0 for all strings, and
\* the same bounds hold for the value rounded to 6 decimals that is stored,
\* so a stored similarity is never the -1 of a pair that is not found; the
\* match count is at most the length of the shorter string, half the
\* transposition count at most the match count, the prefix count at most 4.
C16_Range ==
  jres.set =>
    /\ FCmp(FZero, jres.val.jaro) <= 0
    /\ FCmp(jres.val.jaro, jres.val.jw) <= 0
    /\ FCmp(jres.val.jw, FOne) <= 0
    /\ Millionths(jres.val.jw) \in 0..1000000
    /\ Round6(jres.val.jw) # MinusOne
    /\ Matching(sa, sb).char_matches <= Min2(Len(sa), Len(sb))
    /\ Transpositions(sa, sb) \div 2 <= Matching(sa, sb).char_matches
    /\ PrefixOf(sa, sb) <= 4

\* different strings with a full common prefix: 0 < jaro < jaroWinkler < 1
C16_Witness ==
  /\ jres.set /\ PrefixOf(sa, sb) = 4
  /\ FCmp(FZero, jres.val.jaro) < 0
  /\ FCmp(jres.val.jaro, jres.val.jw) < 0
  /\ FCmp(jres.val.jw, FOne) < 0

\* ------------------------------------------------------------------------
\* Properties of the Result (Spec)
\* ------------------------------------------------------------------------
\* sub, from position i on, occurs in list from position j on, in that order
RECURSIVE InOrder(_, _, _, _)
InOrder(sub, i, list, j) ==
  IF i > Len(sub) THEN TRUE
  ELSE IF j > Len(list) THEN FALSE
  ELSE IF sub[i] = list[j] THEN InOrder(sub, i + 1, list, j + 1)
  ELSE InOrder(sub, i, list, j + 1)

\* C17: when cluster() has returned with k >= 1 the Result is a fixed point:
\* group by group, the first element is the medoid that seeded the group,
\* medoid selection run on the group returns that first element again, and
\* the members after it are not medoids and stand in input order.
C17_FixedPoint ==
  (Returned /\ k >= 1) =>
    /\ Len(result.val) = Len(last_medoids.val)
    /\ \A g \in 1..Len(result.val) :
         /\ result.val[g][1] = last_medoids.val[g]
         /\ current_medoids.val[g] = result.val[g][1]
         /\ findNewMedoid(distMap, result.val[g]) = result.val[g][1]
         /\ \A j \in 2..Len(result.val[g]) :
              result.val[g][j] \notin Range(last_medoids.val)
         /\ InOrder(result.val[g], 2, elems, 1)

\* cluster() has returned after more than one pass, with a group of three
C17_Witness ==
  /\ Returned /\ k = 2 /\ Cardinality(seen) >= 2
  /\ \E g \in 1..2 : Len(result.val[g]) = 3

\* the elements of list are pairwise distinct
Distinct(list) == \A i, j \in DOMAIN list : i # j => list[i] # list[j]

\* the similarities, in millionths, of the members of group to medoid, from
\* member j on, added up
RECURSIVE GroupTotal(_, _, _)
GroupTotal(medoid, group, j) ==
  IF j > Len(group) THEN 0
  ELSE Millionths(Similarity(medoid, group[j]))
       + GroupTotal(medoid, group, j + 1)

\* the total similarity, in millionths, of all elements to the medoid of
\* their group, for the groups from g on
RECURSIVE Objective(_, _, _)
Objective(groups, medoids, g) ==
  IF g > Len(groups) THEN 0
  ELSE GroupTotal(medoids[g], groups[g], 1) + Objective(groups, medoids, g + 1)

\* C18: for pairwise distinct input elements, the total cached similarity
\* of all elements to the medoid of their group after a pass is never below
\* the total after the pass before it, and is strictly above it when the two
\* passes used different medoid multisets.  (Violated by the code: the sums
\* findNewMedoid compares are floating-point sums added in group order, so
\* of two members with the same total the later one can win.)
C18_Objective ==
  [][ (ClusterPass /\ result.set /\ last_medoids.set /\ Distinct(elems)) =>
        /\ Objective(result'.val, last_medoids'.val, 1)
             >= Objective(result.val, last_medoids.val, 1)
        /\ Counter(last_medoids'.val) # Counter(last_medoids.val) =>
             Objective(result'.val, last_medoids'.val, 1)
               > Objective(result.val, last_medoids.val, 1)
    ]_vars

====
